---- MODULE Spec2Model ----
(***************************************************************************)
(* State-machine model of the fetch orchestration engine of the LinkedIn   *)
(* profile parser: RateLimiter (rate_limiter.py), ProxyManager             *)
(* (proxy_manager.py), SessionManager (session_manager.py), the retry loop *)
(* LinkedInParser._fetch_page / parse_profile (linkedin_parser.py), the    *)
(* browser fallback (browser_parser.py) and the batch loop of              *)
(* api_server.parse_batch.                                                 *)
(*                                                                         *)
(* The three service objects are modelled as records whose fields carry    *)
(* the names of the Python attributes; every method is an operator from    *)
(* the object (and its inputs) to the set of its possible outcomes, so     *)
(* that a handler that calls several methods is one action.                *)
(***************************************************************************)
EXTENDS Integers, Sequences, FiniteSets, TLC

\* ------------------------------------------------------------------ bounds
NumAddr == 2          \* proxy addresses the sources can offer
MaxSrcLen == 2        \* longest list one proxy source returns
MaxRetries == 3       \* largest linkedin.max_retries explored
MaxUrls == 3          \* longest batch of URLs
MaxBatchRetries == 1  \* largest linkedin.max_retries explored for a batch
MaxSessions == 2      \* session.max_sessions
MaxRequests == 3      \* cap on each request counter of the free-running pool
MaxPoolTime == 4      \* cap on the time that passes while the pool runs free
MaxRateTime == 4      \* cap on the time that passes around the shared RateLimiter
MaxWaits == 2         \* wait() calls started on the shared RateLimiter, all callers together
NumCallers == 2       \* threads sharing the RateLimiter

\* configuration values, in clock units
RetryDelay == 1           \* linkedin.retry_delay
MaxProxies == 2           \* proxy.max_proxies
RefreshInterval == 3      \* proxy.refresh_interval
MinDelay == 2             \* largest rate_limiting.min_delay configured
MaxDelay == 3             \* largest rate_limiting.max_delay configured

\* time.time() at construction: it exceeds every configured interval
StartTime == MaxDelay + RefreshInterval + 1

Addr == 1..NumAddr

\* session.user_agents: one User-Agent is configured, so that rotation draws it again
FetchUserAgents == {1}

Min(a, b) == IF a < b THEN a ELSE b

Range(s) == {s[i] : i \in DOMAIN s}

\* list(set(xs)): the distinct elements of a set, in an order Python does not fix
Orderings(S) == {f \in [1..Cardinality(S) -> S] : \A i, j \in DOMAIN f : f[i] = f[j] => i = j}

\* ------------------------------------------------------------ ProxyManager
\* Python's None, and the dict {'http': 'http://ip:port', 'https': ...} of get_proxy
None == [none |-> TRUE]

ProxyDict(proxy) == [http |-> <<"http://", proxy>>, https |-> <<"http://", proxy>>]

\* proxy_dict and 'http' in proxy_dict and proxy_url.startswith('http://')
IsProxyDict(proxy_dict) == /\ proxy_dict # None
                           /\ "http" \in DOMAIN proxy_dict
                           /\ proxy_dict.http[1] = "http://"

\* proxy_url.replace('http://', '')
ProxyAddr(proxy_dict) == proxy_dict.http[2]

\* PROXY_SOURCES: the third source is switched off
PROXY_SOURCES == << [name |-> "proxyscrape", enabled |-> TRUE],
                    [name |-> "freeproxylists", enabled |-> TRUE],
                    [name |-> "proxylistplus", enabled |-> FALSE] >>

EnabledSources == {i \in DOMAIN PROXY_SOURCES : PROXY_SOURCES[i].enabled}

\* what one source can answer: an error (HTTP failure, exception) or a list of
\* valid ip:port entries, duplicates allowed
SrcLists == UNION {[1..n -> Addr] : n \in 0..MaxSrcLen}
SourceResponses == {[ok |-> FALSE, list |-> <<>>]} \cup {[ok |-> TRUE, list |-> l] : l \in SrcLists}

\* _fetch_from_source: any exception is logged and becomes the empty list
FetchFromSource(resp) == IF resp.ok THEN resp.list ELSE <<>>

\* the loop of _fetch_proxies over the enabled sources: all_proxies, as the set of
\* addresses list(set(all_proxies)) keeps
AllProxies(resps) == UNION {Range(FetchFromSource(resps[i])) : i \in EnabledSources}

\* every value of set(all_proxies), over all the answers the sources can give
SourceSets == {AllProxies(resps) : resps \in [EnabledSources -> SourceResponses]}

\* what the sources of one _fetch_proxies call amount to: the candidates they
\* contributed, and the enabled sources that raised or returned nothing
SourceSummaries ==
    {[candidates |-> AllProxies(resps),
      silent |-> {i \in EnabledSources : FetchFromSource(resps[i]) = <<>>}] :
        resps \in [EnabledSources -> SourceResponses]}

\* _fetch_proxies without its filter on failed_proxies
KeepFailed(pm, all_proxies) == all_proxies

\* unique_proxies after dropping the failed ones
UniqueProxies(pm, all_proxies) == {p \in all_proxies : p \notin pm.failed_proxies}

\* self.proxies = unique_proxies[:self.max_proxies]
CapPool(pm, ordered) == SubSeq(ordered, 1, Min(pm.max_proxies, Len(ordered)))

\* the tail of _fetch_proxies once unique_proxies is in some order: the new
\* object and the boolean returned
FetchProxies(pm, ordered, t) ==
    LET newp == CapPool(pm, ordered)
    IN  IF newp # <<>>
        THEN [pm |-> [pm EXCEPT !.proxies = newp, !.last_refresh = t], ret |-> TRUE]
        ELSE [pm |-> [pm EXCEPT !.proxies = newp], ret |-> FALSE]

\* every outcome of one _fetch_proxies call at time t
FetchProxiesOutcomes(pm, t) ==
    UNION { {FetchProxies(pm, ordered, t) : ordered \in Orderings(UniqueProxies(pm, all_proxies))} :
            all_proxies \in SourceSets }

\* ProxyManager.__init__ at time t, before the first _fetch_proxies
NewProxyManager(enabled) ==
    [proxies |-> <<>>, current_index |-> 0, failed_proxies |-> {}, last_refresh |-> 0,
     proxy_enabled |-> enabled, max_proxies |-> MaxProxies,
     refresh_interval |-> RefreshInterval,
     proxy_stats |-> <<>>, total_requests |-> 0, successful_requests |-> 0,
     failed_requests |-> 0]

\* the objects __init__ can leave: it refreshes once when proxies are enabled
ConstructedProxyManagers(enabled, t) ==
    IF enabled THEN {o.pm : o \in FetchProxiesOutcomes(NewProxyManager(enabled), t)}
    ELSE {NewProxyManager(enabled)}

\* get_proxy without its test of failed_proxies
NeverSkip(pm, proxy) == FALSE

\* if proxy in self.failed_proxies: continue
SkipProxy(pm, proxy) == proxy \in pm.failed_proxies

\* a statistics update that leaves total_requests alone
CountStatsOnly(pm, proxy) ==
    LET stats == IF proxy \in DOMAIN pm.proxy_stats THEN pm.proxy_stats[proxy]
                 ELSE [requests |-> 0, successful |-> 0, failed |-> 0]
    IN  [pm EXCEPT !.proxy_stats = (proxy :> [stats EXCEPT !.requests = @ + 1]) @@ pm.proxy_stats]

\* the statistics update of get_proxy for the proxy it is about to return
CountRequest(pm, proxy) ==
    LET stats == IF proxy \in DOMAIN pm.proxy_stats THEN pm.proxy_stats[proxy]
                 ELSE [requests |-> 0, successful |-> 0, failed |-> 0]
    IN  [pm EXCEPT !.proxy_stats = (proxy :> [stats EXCEPT !.requests = @ + 1]) @@ pm.proxy_stats,
                   !.total_requests = @ + 1]

\* a rotation allowed a single step
SingleAttempt(pm) == 1

\* a rotation loop allowed three rounds over the pool
TripleAttempts(pm) == Len(pm.proxies) * 3

\* max_attempts = len(self.proxies) * 2
MaxAttempts(pm) == Len(pm.proxies) * 2

\* a cursor that is never taken back to the start
NoWrap(pm) == pm.current_index

\* if self.current_index >= len(self.proxies): self.current_index = 0
WrapCursor(pm) == IF pm.current_index >= Len(pm.proxies) THEN 0 ELSE pm.current_index

\* a selection that ignores the cursor and takes the first proxy not failed
FirstHealthy(pm, attempts, max_attempts) ==
    LET healthy == {i \in DOMAIN pm.proxies : pm.proxies[i] \notin pm.failed_proxies}
    IN  IF healthy = {}
        THEN [pm |-> pm, ret |-> None, steps |-> max_attempts]
        ELSE LET i == CHOOSE i \in healthy : \A j \in healthy : i <= j
             IN  [pm |-> CountRequest(pm, pm.proxies[i]), ret |-> ProxyDict(pm.proxies[i]),
                  steps |-> i]

\* the while loop of get_proxy: the object, the value returned, the cursor steps
RECURSIVE RotationLoop(_, _, _)
RotationLoop(pm, attempts, max_attempts) ==
    IF attempts < max_attempts
    THEN LET idx == WrapCursor(pm)
             proxy == pm.proxies[idx + 1]
             pm1 == [pm EXCEPT !.current_index = idx + 1]
         IN  IF SkipProxy(pm1, proxy)
             THEN RotationLoop(pm1, attempts + 1, max_attempts)
             ELSE [pm |-> CountRequest(pm1, proxy), ret |-> ProxyDict(proxy),
                   steps |-> attempts + 1]
    ELSE [pm |-> pm, ret |-> None, steps |-> attempts]

\* a pool that never counts as aged
NeverStale(pm, t) == FALSE

\* the indices at which the while loop of get_proxy reads self.proxies: an
\* index past the end raises IndexError and ends the call
RECURSIVE CursorAccesses(_, _, _)
CursorAccesses(pm, attempts, max_attempts) ==
    IF attempts < max_attempts
    THEN LET idx == WrapCursor(pm)
         IN  IF idx < 0 \/ idx >= Len(pm.proxies)
             THEN {idx}
             ELSE IF SkipProxy(pm, pm.proxies[idx + 1])
                  THEN {idx} \cup CursorAccesses([pm EXCEPT !.current_index = idx + 1],
                                                 attempts + 1, max_attempts)
                  ELSE {idx}
    ELSE {}

\* time.time() - self.last_refresh > self.refresh_interval
PoolStale(pm, t) == t - pm.last_refresh > pm.refresh_interval

\* get_proxy at time t: every outcome, with the number of refreshes it made
GetProxyOutcomes(pm, t) ==
    IF ~pm.proxy_enabled
    THEN {[pm |-> pm, ret |-> None, steps |-> 0, refreshes |-> 0]}
    ELSE LET aged == IF PoolStale(pm, t)
                     THEN {[pm |-> o.pm, n |-> 1] : o \in FetchProxiesOutcomes(pm, t)}
                     ELSE {[pm |-> pm, n |-> 0]}
             Select(a) ==
                 IF a.pm.proxies = <<>>
                 THEN {IF o.ret
                       THEN RotationLoop(o.pm, 0, MaxAttempts(o.pm)) @@ [refreshes |-> a.n + 1]
                       ELSE [pm |-> o.pm, ret |-> None, steps |-> 0, refreshes |-> a.n + 1]
                       : o \in FetchProxiesOutcomes(a.pm, t)}
                 ELSE {RotationLoop(a.pm, 0, MaxAttempts(a.pm)) @@ [refreshes |-> a.n]}
         IN  UNION {Select(a) : a \in aged}

\* get_proxy up to the rotation (lines 298-314) at time t: the object, and
\* whether the call goes on to rotate (otherwise it returns None)
BeforeRotation(pm, t) ==
    IF ~pm.proxy_enabled
    THEN {[pm |-> pm, ok |-> FALSE]}
    ELSE LET aged == IF PoolStale(pm, t)
                     THEN {o.pm : o \in FetchProxiesOutcomes(pm, t)}
                     ELSE {pm}
             Refetch(a) == IF a.proxies = <<>>
                           THEN {[pm |-> o.pm, ok |-> o.ret] : o \in FetchProxiesOutcomes(a, t)}
                           ELSE {[pm |-> a, ok |-> TRUE]}
         IN  UNION {Refetch(a) : a \in aged}

\* a mark_success that takes the proxy out of failed_proxies
MarkSuccessHeals(pm, proxy_dict) ==
    IF IsProxyDict(proxy_dict)
    THEN [pm EXCEPT !.failed_proxies = @ \ {ProxyAddr(proxy_dict)},
                    !.successful_requests = @ + 1]
    ELSE pm

\* mark_success(proxy_dict, response_time); the running average is not modelled
MarkSuccess(pm, proxy_dict) ==
    IF IsProxyDict(proxy_dict)
    THEN LET proxy == ProxyAddr(proxy_dict)
         IN  [pm EXCEPT !.proxy_stats = IF proxy \in DOMAIN pm.proxy_stats
                                        THEN [@ EXCEPT ![proxy].successful = @ + 1]
                                        ELSE @,
                        !.successful_requests = @ + 1]
    ELSE pm

\* mark_failed(proxy_dict)
MarkFailed(pm, proxy_dict) ==
    IF IsProxyDict(proxy_dict)
    THEN LET proxy == ProxyAddr(proxy_dict)
         IN  [pm EXCEPT !.failed_proxies = @ \cup {proxy},
                        !.proxy_stats = IF proxy \in DOMAIN pm.proxy_stats
                                        THEN [@ EXCEPT ![proxy].failed = @ + 1]
                                        ELSE @,
                        !.failed_requests = @ + 1]
    ELSE pm

\* reset()
ResetProxyManager(pm) ==
    [pm EXCEPT !.current_index = 0, !.failed_proxies = {}, !.proxy_stats = <<>>,
               !.total_requests = 0, !.successful_requests = 0, !.failed_requests = 0]

\* ---------------------------------------------------------- SessionManager
\* A session id is f"session_{n}" (tag "") or f"session_{n}_{tag}"; a session is
\* its User-Agent, whether its cookie jar holds cookies, and its X-Forwarded-For
\* header ("" when it has none).

\* ip.replace('.', '_') for the addresses the model uses
IpTag(ip) == IF ip = "192.168.1.1" THEN "192_168_1_1" ELSE ip

\* _create_session with the User-Agent random.choice picked
CreateSession(sm, ua) ==
    LET session_id == <<sm.session_count, "">>
    IN  [sm EXCEPT !.session_count = @ + 1,
                   !.sessions = (session_id :> [ua |-> ua, cookies |-> FALSE, xff |-> ""]) @@ @]

\* SessionManager.__init__
NewSessionManagers(user_agents, max_sessions) ==
    {CreateSession([sessions |-> <<>>, session_count |-> 0, user_agents |-> user_agents,
                    max_sessions |-> max_sessions], ua) : ua \in user_agents}

\* a get_session that may create a session whatever the size of the pool
AlwaysBelow(sm) == TRUE

\* if len(self.sessions) < self.max_sessions
BelowMaxSessions(sm) == Cardinality(DOMAIN sm.sessions) < sm.max_sessions

\* get_session: the object and the id of the session returned
GetSessionOutcomes(sm) ==
    LET grown == {sm} \cup (IF BelowMaxSessions(sm)
                            THEN {CreateSession(sm, ua) : ua \in sm.user_agents}
                            ELSE {})
        Pick(g) == UNION { {[sm |-> g, sid |-> sid]}
                           \cup {[sm |-> [g EXCEPT !.sessions[sid].ua = ua], sid |-> sid] :
                                     ua \in g.user_agents}
                           : sid \in DOMAIN g.sessions }
    IN  UNION {Pick(g) : g \in grown}

\* rotate_user_agent(): every session draws a User-Agent
RotateAllUserAgents(sm) ==
    {[sm EXCEPT !.sessions = [sid \in DOMAIN sm.sessions |-> [sm.sessions[sid] EXCEPT !.ua = uas[sid]]]] :
        uas \in [DOMAIN sm.sessions -> sm.user_agents]}

\* rotate_user_agent(session_id)
RotateUserAgent(sm, session_id) ==
    IF session_id \in DOMAIN sm.sessions
    THEN {[sm EXCEPT !.sessions[session_id].ua = ua] : ua \in sm.user_agents}
    ELSE {sm}

\* clear_cookies(): the cookie jar of every session is emptied
ClearAllCookies(sm) ==
    [sm EXCEPT !.sessions = [sid \in DOMAIN sm.sessions |-> [sm.sessions[sid] EXCEPT !.cookies = FALSE]]]

\* clear_cookies(session_id)
ClearCookies(sm, session_id) ==
    IF session_id \in DOMAIN sm.sessions
    THEN [sm EXCEPT !.sessions[session_id].cookies = FALSE]
    ELSE sm

\* rotate_session: get_session, then with probability 0.15 rotate_user_agent()
RotateSessionOutcomes(sm) ==
    UNION { {o} \cup {[sm |-> r, sid |-> o.sid] : r \in RotateAllUserAgents(o.sm)} :
            o \in GetSessionOutcomes(sm) }

\* a create_new_session_for_ip that leaves session_count alone
CreateForIpNoCount(sm, ip, ua) ==
    LET session_id == <<sm.session_count, IpTag(ip)>>
    IN  [sm EXCEPT !.sessions = (session_id :> [ua |-> ua, cookies |-> FALSE, xff |-> ip]) @@ @]

\* create_new_session_for_ip(ip) with the User-Agent random.choice picked
CreateSessionForIp(sm, ip, ua) ==
    LET session_id == <<sm.session_count, IpTag(ip)>>
    IN  [sm EXCEPT !.session_count = @ + 1,
                   !.sessions = (session_id :> [ua |-> ua, cookies |-> FALSE, xff |-> ip]) @@ @]

\* clear_all_sessions without _create_session()
ClearOnly(sm) == {[sm EXCEPT !.sessions = <<>>]}

\* clear_all_sessions without sessions.clear()
CreateWithoutClear(sm) == {CreateSession(sm, ua) : ua \in sm.user_agents}

\* clear_all_sessions: sessions.clear(), then _create_session()
ClearAllSessions(sm) ==
    {CreateSession([sm EXCEPT !.sessions = <<>>], ua) : ua \in sm.user_agents}

\* remove_session(session_id)
RemoveSession(sm, session_id) ==
    [sm EXCEPT !.sessions = [sid \in DOMAIN sm.sessions \ {session_id} |-> sm.sessions[sid]]]

\* the response of session.get may store cookies in the jar of the session used
StoreCookies(sm, sid, set) ==
    IF set /\ sid \in DOMAIN sm.sessions THEN [sm EXCEPT !.sessions[sid].cookies = TRUE] ELSE sm

\* ------------------------------------------------------------- RateLimiter
\* RateLimiter.__init__
NewRateLimiter(min_delay, max_delay, enabled) ==
    [min_delay |-> min_delay, max_delay |-> max_delay, enabled |-> enabled,
     last_request_time |-> 0]

\* random.uniform(self.min_delay, self.max_delay), on the integer clock
Delays(rl) == rl.min_delay..rl.max_delay

\* wait() that never sleeps
NoWaitTime(rl, current_time, delay) == 0

\* wait(), lines 30-40: how long the caller sleeps, having read the clock as
\* current_time and drawn delay
WaitTime(rl, current_time, delay) ==
    LET time_since_last == current_time - rl.last_request_time
    IN  IF time_since_last < delay THEN delay - time_since_last ELSE 0

\* self.last_request_time = time.time()
StampRequest(rl, t) == [rl EXCEPT !.last_request_time = t]

\* wait() run by a single caller at time t: the object and the time it returns
WaitOutcomes(rl, t) ==
    IF ~rl.enabled
    THEN {[rl |-> rl, t |-> t, slept |-> 0]}
    ELSE {LET w == WaitTime(rl, t, delay)
          IN  [rl |-> StampRequest(rl, t + w), t |-> t + w, slept |-> w] : delay \in Delays(rl)}

\* ----------------------------------------------------------- BrowserParser
\* parser.browser_parser is "absent" (import or construction failed) or "ready";
\* a BrowserParser whose driver did not start answers None like a failed load.
Browsers == {"absent", "ready"}

\* fetch_profile then check_blockage: the page source (or None) and whether it
\* shows a block indicator
FetchProfileOutcomes(browser) ==
    IF browser = "ready"
    THEN {[html |-> h, blocked |-> b] : h \in BOOLEAN, b \in BOOLEAN}
    ELSE {}

\* a fallback that accepts whatever page the browser loaded
AnyHtml(fb) == fb.html

\* browser_html and not self.browser_parser.check_blockage()
FallbackSucceeded(fb) == fb.html /\ ~fb.blocked

\* ------------------------------------------- LinkedInParser._fetch_page
\* What one session.get can end in: an HTTP status ("500" stands for every
\* status without a branch of its own) or an exception.
Statuses == {"200", "403", "404", "999", "429", "500"}
RequestExceptions == {"InvalidURL", "Timeout", "ConnectionError", "RequestException"}
Outcomes == Statuses \cup RequestExceptions \cup {"Exception"}

\* attempt == self.max_retries - 1
IsFinalAttempt(parser, attempt) == attempt = parser.max_retries - 1

\* attempt < self.max_retries - 1
HasAttemptsLeft(parser, attempt) == attempt < parser.max_retries - 1

\* a failure branch that leaves the pool untouched
LeaveUnmarked(pm, proxy) == pm

\* if proxy: self.proxy_manager.mark_failed(proxy)
MarkFailedIfProxy(pm, proxy) == IF proxy # None THEN MarkFailed(pm, proxy) ELSE pm

\* the proxies a branch passed to mark_failed
Marked(proxy) == IF proxy # None THEN <<proxy>> ELSE <<>>

\* a failure branch that always goes round the loop again
AlwaysRetry(parser, attempt, pm, sm, wait_time, marked) ==
    [pm |-> pm, sm |-> sm, marked |-> marked, fallback |-> <<>>, soup |-> "none",
     generic |-> FALSE,
     sleep |-> wait_time, returns |-> FALSE]

\* the common tail of the failure branches: sleep wait_time and continue when
\* attempts remain, otherwise leave the loop and return None; generic tells
\* whether the attempt ended in the handler of except Exception
RetryOrGiveUp(parser, attempt, pm, sm, wait_time, marked) ==
    [pm |-> pm, sm |-> sm, marked |-> marked, fallback |-> <<>>, soup |-> "none",
     generic |-> FALSE,
     sleep |-> IF HasAttemptsLeft(parser, attempt) THEN wait_time ELSE 0,
     returns |-> ~HasAttemptsLeft(parser, attempt)]

\* a 200 branch that reports nothing to the pool
On200Unmarked(parser, attempt, pm, sm, proxy) ==
    {[pm |-> pm, sm |-> sm, marked |-> <<>>, fallback |-> <<>>,
      soup |-> "page", generic |-> FALSE, sleep |-> 0, returns |-> TRUE]}

\* status 200: mark_success and return the soup
On200(parser, attempt, pm, sm, proxy) ==
    {[pm |-> MarkSuccess(pm, proxy), sm |-> sm, marked |-> <<>>, fallback |-> <<>>,
      soup |-> "page", generic |-> FALSE, sleep |-> 0, returns |-> TRUE]}

\* status 403
On403(parser, attempt, pm, sm, proxy) ==
    {RetryOrGiveUp(parser, attempt, MarkFailedIfProxy(pm, proxy), rotated,
                   parser.retry_delay, Marked(proxy)) :
        rotated \in RotateAllUserAgents(ClearAllCookies(sm))}

\* 404 handled like a status without a branch of its own
On404Retry(parser, attempt, pm, sm, proxy) ==
    {RetryOrGiveUp(parser, attempt, MarkFailedIfProxy(pm, proxy), sm,
                   parser.retry_delay, Marked(proxy))}

\* status 404
On404(parser, attempt, pm, sm, proxy) ==
    {[pm |-> pm, sm |-> sm, marked |-> <<>>, fallback |-> <<>>, soup |-> "none",
      generic |-> FALSE, sleep |-> 0, returns |-> TRUE]}

\* a generic handler that gives the fetch up
GiveUpOnException(parser, attempt, pm, sm, marked) ==
    {[pm |-> pm, sm |-> sm, marked |-> marked, fallback |-> <<>>, soup |-> "none",
      generic |-> TRUE, sleep |-> 0, returns |-> TRUE]}

\* except Exception: nothing is marked; retry after retry_delay
OnException(parser, attempt, pm, sm, marked) ==
    {[RetryOrGiveUp(parser, attempt, pm, sm, parser.retry_delay, marked)
          EXCEPT !.generic = TRUE]}

\* the fallback asked for on whichever attempt sees 999
FallbackOnAnyAttempt(parser, attempt) == parser.browser # "absent"

\* if attempt == self.max_retries - 1 and self.browser_parser
UsesFallback(parser, attempt) == IsFinalAttempt(parser, attempt) /\ parser.browser # "absent"

\* status 999. proxy is the dict of get_proxy, so proxy.replace(...) raises
\* AttributeError when a proxy is in use and the generic handler takes over.
On999(parser, attempt, pm, sm, proxy) ==
    LET pm1 == MarkFailedIfProxy(pm, proxy)
    IN  IF UsesFallback(parser, attempt)
        THEN {[pm |-> pm1, sm |-> sm, marked |-> Marked(proxy), fallback |-> <<fb>>,
               soup |-> IF FallbackSucceeded(fb) THEN "browser" ELSE "none",
               generic |-> FALSE, sleep |-> 0, returns |-> TRUE] : fb \in FetchProfileOutcomes(parser.browser)}
        ELSE IF proxy # None
             THEN OnException(parser, attempt, pm1, sm, Marked(proxy))
             ELSE {RetryOrGiveUp(parser, attempt, pm1, CreateSessionForIp(sm, "unknown", ua),
                                 parser.retry_delay * 2, Marked(proxy)) :
                       ua \in sm.user_agents}

\* a 429 branch with the backoff of the other failures
On429Short(parser, attempt, pm, sm, proxy) ==
    {RetryOrGiveUp(parser, attempt, MarkFailedIfProxy(pm, proxy), fresh,
                   parser.retry_delay, Marked(proxy)) :
        fresh \in ClearAllSessions(sm)}

\* status 429
On429(parser, attempt, pm, sm, proxy) ==
    {RetryOrGiveUp(parser, attempt, MarkFailedIfProxy(pm, proxy), fresh,
                   parser.retry_delay * 3, Marked(proxy)) :
        fresh \in ClearAllSessions(sm)}

\* any other status
OnOtherStatus(parser, attempt, pm, sm, proxy) ==
    {RetryOrGiveUp(parser, attempt, MarkFailedIfProxy(pm, proxy), sm,
                   parser.retry_delay, Marked(proxy))}

\* except InvalidURL / Timeout / ConnectionError / RequestException
OnRequestException(parser, attempt, pm, sm, proxy) ==
    {RetryOrGiveUp(parser, attempt, MarkFailedIfProxy(pm, proxy), sm,
                   parser.retry_delay, Marked(proxy))}

\* the body of one loop iteration once session.get ended in outcome
Handle(parser, attempt, pm, sm, proxy, outcome) ==
    CASE outcome = "200" -> On200(parser, attempt, pm, sm, proxy)
      [] outcome = "403" -> On403(parser, attempt, pm, sm, proxy)
      [] outcome = "404" -> On404(parser, attempt, pm, sm, proxy)
      [] outcome = "999" -> On999(parser, attempt, pm, sm, proxy)
      [] outcome = "429" -> On429(parser, attempt, pm, sm, proxy)
      [] outcome = "500" -> OnOtherStatus(parser, attempt, pm, sm, proxy)
      [] outcome \in RequestExceptions -> OnRequestException(parser, attempt, pm, sm, proxy)
      [] OTHER -> OnException(parser, attempt, pm, sm, <<>>)

\* ---------------------------------------------------------- parse_profile
\* the record parse_profile builds from what _fetch_page returned
ParseProfileResult(parser, url, page) ==
    IF page = "none"
    THEN [element |-> "empty", status |-> "error", error |-> "Failed to load profile page",
          errorDetails |-> [message |-> "blocked or unavailable", url |-> url,
                            attempts |-> parser.max_retries]]
    ELSE [element |-> url, status |-> "200", retries |-> 0]

\* ------------------------------------------------------------------ state
VARIABLES
    pm,        \* the ProxyManager object
    sm,        \* the SessionManager object
    rl,        \* the RateLimiter object
    now,       \* time.time()
    parser,    \* LinkedInParser: max_retries, retry_delay, browser
    executor,  \* the statuses and exceptions session.get may answer, per attempt
    urls,      \* the batch being parsed
    results,   \* parse_batch: one entry per URL handled so far
    pc,        \* where the batch stands: "item", "fetch", "fetched", "done"
    attempt,   \* the loop variable of _fetch_page
    page,      \* what _fetch_page returned: "none", "page", "browser"
    log,       \* what the current _fetch_page call has done so far
    history,   \* per finished item: how its fetch ended, what parse_profile returned
    created,   \* every session id ever registered
    op,        \* the latest ProxyManager call made directly, with its result
    callers,   \* the threads inside RateLimiter.wait()
    returns    \* the wait() calls that returned: time, delay drawn, caller

vars == <<pm, sm, rl, now, parser, executor, urls, results, pc, attempt, page, log,
          history, created, op, callers, returns>>

\* what a batch may list; the JSON null is no string: url.startswith raises in
\* parse_profile
Urls == {"in/alice", "null"}

IsString(url) == url # "null"

\* log: attempts made; the outcome, proxy, session and backoff of the latest one,
\* and whether it ended in the generic handler;
\* the sessions it started from; every proxy passed to mark_failed; the fallback
\* results and the attempts that asked for them; the wait() calls
EmptyLog == [attempts |-> 0, outcome |-> "", proxy |-> None, sleep |-> 0, sid |-> <<>>,
             before |-> <<>>, marked |-> <<>>, fallback |-> <<>>, fallback_at |-> <<>>,
             waits |-> 0, generic |-> FALSE]

\* the answers the executor allows for attempt number n (from 1): its last entry
\* repeats
ExecutorOutcomes(e, n) == e[Min(n, Len(e))]

\* ------------------------------------------------------------------- batch
\* a batch that ends with its first entry
StopAfterFirst(done) == "done"

\* pc after an entry is appended: the for loop of parse_batch goes on or ends
AfterItem(done) == IF done < Len(urls) THEN "item" ELSE "done"

\* the entry parse_batch appends when the loop body raised
ErrorEntry(url) == [url |-> url, status |-> "error", error |-> "exception"]

\* the entry parse_batch appends for the record parse_profile returned
BatchEntry(url, profile_data) ==
    IF profile_data.status = "200"
    THEN [url |-> url, status |-> "success"]
    ELSE [url |-> url, status |-> "error", error |-> profile_data.error]

\* parse_batch reaches an entry on which parse_profile raises: the except branch
\* records the error and the loop goes on
SkipBadItem ==
    /\ pc = "item"
    /\ Len(results) < Len(urls)
    /\ LET url == urls[Len(results) + 1]
       IN  /\ ~IsString(url)
           /\ results' = Append(results, ErrorEntry(url))
           /\ history' = Append(history, [outcome |-> "", attempts |-> 0, page |-> "none",
                                          raised |-> TRUE, profile_data |-> None])
    /\ pc' = AfterItem(Len(results) + 1)
    /\ UNCHANGED <<pm, sm, rl, now, parser, executor, urls, attempt, page, log, created,
                   op, callers, returns>>

\* parse_profile calls _fetch_page: rate_limiter.wait(), then the loop starts
StartFetch ==
    /\ pc = "item"
    /\ Len(results) < Len(urls)
    /\ IsString(urls[Len(results) + 1])
    /\ \E w \in WaitOutcomes(rl, now) :
          /\ rl' = w.rl
          /\ now' = w.t
    /\ pc' = "fetch"
    /\ attempt' = 0
    /\ page' = "none"
    /\ log' = [EmptyLog EXCEPT !.waits = 1]
    /\ UNCHANGED <<pm, sm, parser, executor, urls, results, history, created, op,
                   callers, returns>>

\* one iteration of the loop of _fetch_page: get_proxy, rotate_session,
\* session.get, the branch of its outcome, the backoff sleep
Attempt ==
    /\ pc = "fetch"
    /\ \E gp \in GetProxyOutcomes(pm, now), rs \in RotateSessionOutcomes(sm),
          outcome \in ExecutorOutcomes(executor, attempt + 1), cookies \in BOOLEAN :
          LET sm1 == StoreCookies(rs.sm, rs.sid, cookies /\ outcome \in Statuses)
          IN  \E h \in Handle(parser, attempt, gp.pm, sm1, gp.ret, outcome) :
                 /\ pm' = h.pm
                 /\ sm' = h.sm
                 /\ now' = now + h.sleep
                 /\ created' = created \cup DOMAIN sm1.sessions \cup DOMAIN h.sm.sessions
                 /\ log' = [log EXCEPT !.attempts = @ + 1,
                                       !.outcome = outcome,
                                       !.proxy = gp.ret,
                                       !.sleep = h.sleep,
                                       !.generic = h.generic,
                                       !.sid = rs.sid,
                                       !.before = [created |-> created \cup DOMAIN sm1.sessions,
                                                   sessions |-> sm1.sessions],
                                       !.marked = @ \o h.marked,
                                       !.fallback = @ \o h.fallback,
                                       !.fallback_at = IF h.fallback # <<>>
                                                       THEN Append(@, attempt) ELSE @]
                 /\ IF h.returns
                    THEN /\ pc' = "fetched"
                         /\ page' = h.soup
                         /\ attempt' = attempt
                    ELSE /\ pc' = "fetch"
                         /\ page' = page
                         /\ attempt' = attempt + 1
    /\ UNCHANGED <<rl, parser, executor, urls, results, history, op, callers, returns>>

\* the rest of parse_profile and of the loop body of parse_batch: extraction and
\* export may raise, which the except branch turns into an error entry
FinishItem ==
    /\ pc = "fetched"
    /\ LET url == urls[Len(results) + 1]
           profile_data == ParseProfileResult(parser, url, page)
       IN  \E raised \in IF page = "none" THEN {FALSE} ELSE BOOLEAN :
              /\ results' = Append(results, IF raised THEN ErrorEntry(url)
                                            ELSE BatchEntry(url, profile_data))
              /\ history' = Append(history,
                     [outcome |-> log.outcome, attempts |-> log.attempts,
                      page |-> page, raised |-> raised, profile_data |-> profile_data])
    /\ pc' = AfterItem(Len(results) + 1)
    /\ attempt' = 0
    /\ page' = "none"
    /\ log' = EmptyLog
    /\ UNCHANGED <<pm, sm, rl, now, parser, executor, urls, created, op, callers, returns>>

Batches(n) == UNION {[1..k -> Urls] : k \in 1..n}

\* the objects api_server.py and main.py construct, for one configuration
InitObjects(retries, user_agents) ==
    /\ parser \in [max_retries : retries, retry_delay : {RetryDelay}, browser : Browsers]
    /\ \E enabled \in BOOLEAN : pm \in ConstructedProxyManagers(enabled, StartTime)
    /\ sm \in NewSessionManagers(user_agents, MaxSessions)
    /\ created = DOMAIN sm.sessions
    /\ rl = NewRateLimiter(MinDelay, MaxDelay, TRUE)
    /\ now = StartTime
    /\ results = <<>>
    /\ pc = "item"
    /\ attempt = 0
    /\ page = "none"
    /\ log = EmptyLog
    /\ history = <<>>
    /\ op = [name |-> "init", run |-> <<>>]
    /\ callers = <<>>
    /\ returns = <<>>

\* one URL, fetched against a network that may answer anything
Init ==
    /\ InitObjects(1..MaxRetries, FetchUserAgents)
    /\ executor = <<Outcomes>>
    /\ urls \in Batches(1)

Next == SkipBadItem \/ StartFetch \/ Attempt \/ FinishItem

Spec == Init /\ [][Next]_vars

\* ------------------------------------------------------- scripted executor
\* the scenarios of a scripted executor: the answers attempt by attempt
Scripts == { << {"403"}, {"403"}, {"200"} >>,
             << {"404"} >>,
             << {"999"} >>,
             << {"429"}, Outcomes >>,
             << {"InvalidURL"}, {"200"} >>,
             << {"200"} >> }

InitScripted ==
    /\ InitObjects(1..MaxRetries, FetchUserAgents)
    /\ executor \in Scripts
    /\ urls \in Batches(1)

SpecScripted == InitScripted /\ [][Next]_vars

\* ------------------------------------------------------------ whole batch
\* the statuses a batch is answered with
BatchOutcomes == {"200", "403", "404", "Exception"}

InitBatch ==
    /\ InitObjects(1..MaxBatchRetries, FetchUserAgents)
    /\ executor = <<BatchOutcomes>>
    /\ urls \in Batches(MaxUrls)

SpecBatch == InitBatch /\ [][Next]_vars

\* ---------------------------------------------------- free-running pool
\* The ProxyManager driven directly, by any interleaving of its callers: every
\* action is one call. A report names a proxy get_proxy has handed out.

\* op.run lists the addresses returned by the get_proxy calls made since the
\* latest mark_failed or refresh

PoolGetProxy ==
    /\ pm.total_requests < MaxRequests
    /\ \E o \in GetProxyOutcomes(pm, now) :
          /\ pm' = o.pm
          /\ op' = [name |-> "get_proxy", ret |-> o.ret, steps |-> o.steps,
                    refreshes |-> o.refreshes,
                    run |-> IF o.ret = None THEN <<>>
                            ELSE IF o.refreshes > 0 THEN <<ProxyAddr(o.ret)>>
                            ELSE Append(op.run, ProxyAddr(o.ret))]
    /\ UNCHANGED <<sm, rl, now, parser, executor, urls, results, pc, attempt, page, log,
                   history, created, callers, returns>>

PoolMarkSuccess ==
    /\ pm.successful_requests + pm.failed_requests < MaxRequests
    /\ \E proxy \in DOMAIN pm.proxy_stats :
          /\ pm' = MarkSuccess(pm, ProxyDict(proxy))
          /\ op' = [name |-> "mark_success", arg |-> proxy, before |-> pm, run |-> op.run]
    /\ UNCHANGED <<sm, rl, now, parser, executor, urls, results, pc, attempt, page, log,
                   history, created, callers, returns>>

PoolMarkFailed ==
    /\ pm.successful_requests + pm.failed_requests < MaxRequests
    /\ \E proxy \in DOMAIN pm.proxy_stats :
          /\ pm' = MarkFailed(pm, ProxyDict(proxy))
          /\ op' = [name |-> "mark_failed", arg |-> proxy, before |-> pm, run |-> <<>>]
    /\ UNCHANGED <<sm, rl, now, parser, executor, urls, results, pc, attempt, page, log,
                   history, created, callers, returns>>

\* _fetch_proxies called on its own
PoolRefresh ==
    /\ pm.proxy_enabled
    /\ \E src \in SourceSummaries :
          \E ordered \in Orderings(UniqueProxies(pm, src.candidates)) :
              LET o == FetchProxies(pm, ordered, now)
              IN  /\ pm' = o.pm
                  /\ op' = [name |-> "refresh", ret |-> o.ret, before |-> pm.proxies,
                            candidates |-> src.candidates, silent |-> src.silent,
                            run |-> <<>>]
    /\ UNCHANGED <<sm, rl, now, parser, executor, urls, results, pc, attempt, page, log,
                   history, created, callers, returns>>

\* time passes
PoolTick ==
    /\ now < StartTime + MaxPoolTime
    /\ now' = now + 1
    /\ UNCHANGED <<pm, sm, rl, parser, executor, urls, results, pc, attempt, page, log,
                   history, created, op, callers, returns>>

InitPool ==
    /\ InitObjects({1}, FetchUserAgents)
    /\ parser.browser = "absent"
    /\ executor = <<Outcomes>>
    /\ urls = <<>>

NextPool == PoolGetProxy \/ PoolMarkSuccess \/ PoolMarkFailed \/ PoolRefresh \/ PoolTick

SpecPool == InitPool /\ [][NextPool]_vars

\* ------------------------------------------------- shared RateLimiter
\* Threads of the API server inside wait() of the module-level rate_limiter.
\* A caller is at "idle" (outside wait), "clocked" (line 30 read the clock),
\* "sleeping" (time.sleep) or "stamp" (about to run line 42); calls counts its
\* wait() calls. returns keeps the two latest returns of wait().
Idle(calls) == [at |-> "idle", current_time |-> 0, delay |-> 0, until |-> 0, calls |-> calls]

\* the wait() calls started so far, by all callers
RECURSIVE Calls(_, _)
Calls(cs, n) == IF n = 0 THEN 0 ELSE cs[n].calls + Calls(cs, n - 1)

Started(cs) == Calls(cs, Len(cs)) + Cardinality({c \in DOMAIN cs : cs[c].at # "idle"})

\* the two latest returns, r being the latest
Latest(rs, r) == IF rs = <<>> THEN <<r>> ELSE <<rs[Len(rs)], r>>

\* a disabled limiter that stamps the time of the call
DisabledStamps ==
    \E c \in DOMAIN callers :
        /\ callers[c].at = "idle"
        /\ ~rl.enabled
        /\ Started(callers) < MaxWaits
        /\ rl' = StampRequest(rl, now)
        /\ callers' = [callers EXCEPT ![c] = Idle(@.calls + 1)]
        /\ returns' = Latest(returns, [t |-> now, delay |-> 0, caller |-> c])
        /\ UNCHANGED <<pm, sm, now, parser, executor, urls, results, pc, attempt, page,
                       log, history, created, op>>

\* wait() on a disabled limiter returns at once
WaitDisabled ==
    \E c \in DOMAIN callers :
        /\ callers[c].at = "idle"
        /\ ~rl.enabled
        /\ Started(callers) < MaxWaits
        /\ callers' = [callers EXCEPT ![c] = Idle(@.calls + 1)]
        /\ returns' = Latest(returns, [t |-> now, delay |-> 0, caller |-> c])
        /\ UNCHANGED <<pm, sm, rl, now, parser, executor, urls, results, pc, attempt, page,
                       log, history, created, op>>

\* line 30: current_time = time.time()
ReadClock ==
    \E c \in DOMAIN callers :
        /\ callers[c].at = "idle"
        /\ rl.enabled
        /\ Started(callers) < MaxWaits
        /\ callers' = [callers EXCEPT ![c].at = "clocked", ![c].current_time = now]
        /\ UNCHANGED <<pm, sm, rl, now, parser, executor, urls, results, pc, attempt, page,
                       log, history, created, op, returns>>

\* lines 31-40: read last_request_time, draw the delay, start to sleep if needed
ReadLast ==
    \E c \in DOMAIN callers :
        /\ callers[c].at = "clocked"
        /\ \E delay \in Delays(rl) :
              LET wait_time == WaitTime(rl, callers[c].current_time, delay)
              IN  callers' = [callers EXCEPT ![c].delay = delay,
                                             ![c].at = IF wait_time > 0 THEN "sleeping"
                                                       ELSE "stamp",
                                             ![c].until = now + wait_time]
        /\ UNCHANGED <<pm, sm, rl, now, parser, executor, urls, results, pc, attempt, page,
                       log, history, created, op, returns>>

\* time.sleep(wait_time) is over
Wake ==
    \E c \in DOMAIN callers :
        /\ callers[c].at = "sleeping"
        /\ now >= callers[c].until
        /\ callers' = [callers EXCEPT ![c].at = "stamp"]
        /\ UNCHANGED <<pm, sm, rl, now, parser, executor, urls, results, pc, attempt, page,
                       log, history, created, op, returns>>

\* line 42: self.last_request_time = time.time(), and wait() returns
Stamp ==
    \E c \in DOMAIN callers :
        /\ callers[c].at = "stamp"
        /\ rl' = StampRequest(rl, now)
        /\ returns' = Latest(returns, [t |-> now, delay |-> callers[c].delay, caller |-> c])
        /\ callers' = [callers EXCEPT ![c] = Idle(@.calls + 1)]
        /\ UNCHANGED <<pm, sm, now, parser, executor, urls, results, pc, attempt, page, log,
                       history, created, op>>

\* time passes
RateTick ==
    /\ now < StartTime + MaxRateTime
    /\ now' = now + 1
    /\ UNCHANGED <<pm, sm, rl, parser, executor, urls, results, pc, attempt, page, log,
                   history, created, op, callers, returns>>

InitRate ==
    /\ parser = [max_retries |-> 1, retry_delay |-> RetryDelay, browser |-> "absent"]
    /\ pm = NewProxyManager(FALSE)
    /\ sm \in NewSessionManagers(FetchUserAgents, MaxSessions)
    /\ created = DOMAIN sm.sessions
    /\ \E enabled \in BOOLEAN, min_delay \in 1..MinDelay :
          \E max_delay \in min_delay..MaxDelay :
              rl = NewRateLimiter(min_delay, max_delay, enabled)
    /\ now = StartTime
    /\ executor = <<Outcomes>>
    /\ urls = <<>>
    /\ results = <<>>
    /\ pc = "done"
    /\ attempt = 0
    /\ page = "none"
    /\ log = EmptyLog
    /\ history = <<>>
    /\ op = [name |-> "init", run |-> <<>>]
    /\ \E n \in 1..NumCallers : callers = [c \in 1..n |-> Idle(0)]
    /\ returns = <<>>

NextRate == WaitDisabled \/ ReadClock \/ ReadLast \/ Wake \/ Stamp \/ RateTick

SpecRate == InitRate /\ [][NextRate]_vars

\* ------------------------------------------------ shared ProxyManager
\* Threads of the API server inside get_proxy() of the module-level
\* proxy_manager, which takes no lock: a step is one statement, and an augmented
\* assignment (x += 1) is a load followed by a store. A thread is at "idle"
\* (outside get_proxy), "test" (the while condition), "wrap", "index", "cursor",
\* "cursor_w", "stats", "stats_w", "total" or "total_w"; proxy, attempts and
\* max_attempts are its locals, read the value its latest load saw. returns lists
\* what the calls made so far returned or raised.
MaxCalls == 2         \* calls started on a shared object, all threads together

Outside(calls) == [at |-> "idle", proxy |-> 0, attempts |-> 0, max_attempts |-> 0,
                   read |-> 0, calls |-> calls]

\* the call of thread c is over: it returned ret, or raised
Returned(c, ret, raised) ==
    /\ callers' = [callers EXCEPT ![c] = Outside(@.calls + 1)]
    /\ returns' = Append(returns, [ret |-> ret, raised |-> raised])

\* lines 298-314: the tests on proxy_enabled, on the age of the pool and on its
\* emptiness, with the refreshes they ask for; attempts = 0; max_attempts
GpEnter ==
    \E c \in DOMAIN callers :
        /\ callers[c].at = "idle"
        /\ Started(callers) < MaxCalls
        /\ \E b \in BeforeRotation(pm, now) :
              /\ pm' = b.pm
              /\ IF b.ok
                 THEN /\ callers' = [callers EXCEPT ![c].at = "test",
                                                    ![c].attempts = 0,
                                                    ![c].max_attempts = MaxAttempts(b.pm)]
                      /\ returns' = returns
                 ELSE Returned(c, None, FALSE)
        /\ UNCHANGED <<sm, rl, now, parser, executor, urls, results, pc, attempt, page, log,
                       history, created, op>>

\* line 316: while attempts < max_attempts; line 352: return None
GpTest ==
    \E c \in DOMAIN callers :
        /\ callers[c].at = "test"
        /\ IF callers[c].attempts < callers[c].max_attempts
           THEN /\ callers' = [callers EXCEPT ![c].at = "wrap"]
                /\ returns' = returns
           ELSE Returned(c, None, FALSE)
        /\ UNCHANGED <<pm, sm, rl, now, parser, executor, urls, results, pc, attempt, page,
                       log, history, created, op>>

\* lines 317-318: if self.current_index >= len(self.proxies): self.current_index = 0
GpWrap ==
    \E c \in DOMAIN callers :
        /\ callers[c].at = "wrap"
        /\ pm' = IF pm.current_index >= Len(pm.proxies)
                 THEN [pm EXCEPT !.current_index = 0] ELSE pm
        /\ callers' = [callers EXCEPT ![c].at = "index"]
        /\ UNCHANGED <<sm, rl, now, parser, executor, urls, results, pc, attempt, page, log,
                       history, created, op, returns>>

\* line 320: proxy = self.proxies[self.current_index], IndexError past the end
GpIndex ==
    \E c \in DOMAIN callers :
        /\ callers[c].at = "index"
        /\ IF pm.current_index < Len(pm.proxies)
           THEN /\ callers' = [callers EXCEPT ![c].at = "cursor",
                                              ![c].proxy = pm.proxies[pm.current_index + 1]]
                /\ returns' = returns
           ELSE Returned(c, None, TRUE)
        /\ UNCHANGED <<pm, sm, rl, now, parser, executor, urls, results, pc, attempt, page,
                       log, history, created, op>>

\* line 321, the load of self.current_index += 1
GpLoadCursor ==
    \E c \in DOMAIN callers :
        /\ callers[c].at = "cursor"
        /\ callers' = [callers EXCEPT ![c].at = "cursor_w", ![c].read = pm.current_index]
        /\ UNCHANGED <<pm, sm, rl, now, parser, executor, urls, results, pc, attempt, page,
                       log, history, created, op, returns>>

\* line 321, the store of self.current_index += 1; line 322: attempts += 1;
\* lines 325-326: a failed proxy is skipped
GpStoreCursor ==
    \E c \in DOMAIN callers :
        /\ callers[c].at = "cursor_w"
        /\ pm' = [pm EXCEPT !.current_index = callers[c].read + 1]
        /\ callers' = [callers EXCEPT ![c].attempts = @ + 1,
                                      ![c].at = IF SkipProxy(pm, callers[c].proxy)
                                                THEN "test" ELSE "stats"]
        /\ UNCHANGED <<sm, rl, now, parser, executor, urls, results, pc, attempt, page, log,
                       history, created, op, returns>>

\* lines 329-337: the entry of proxy_stats is created when missing; line 340,
\* the load of self.proxy_stats[proxy]['requests'] += 1
GpLoadStats ==
    \E c \in DOMAIN callers :
        /\ callers[c].at = "stats"
        /\ LET proxy == callers[c].proxy
               stats == IF proxy \in DOMAIN pm.proxy_stats THEN pm.proxy_stats[proxy]
                        ELSE [requests |-> 0, successful |-> 0, failed |-> 0]
           IN  /\ pm' = [pm EXCEPT !.proxy_stats = (proxy :> stats) @@ @]
               /\ callers' = [callers EXCEPT ![c].at = "stats_w", ![c].read = stats.requests]
        /\ UNCHANGED <<sm, rl, now, parser, executor, urls, results, pc, attempt, page, log,
                       history, created, op, returns>>

\* line 340, the store of self.proxy_stats[proxy]['requests'] += 1
GpStoreStats ==
    \E c \in DOMAIN callers :
        /\ callers[c].at = "stats_w"
        /\ pm' = [pm EXCEPT !.proxy_stats[callers[c].proxy].requests = callers[c].read + 1]
        /\ callers' = [callers EXCEPT ![c].at = "total"]
        /\ UNCHANGED <<sm, rl, now, parser, executor, urls, results, pc, attempt, page, log,
                       history, created, op, returns>>

\* line 342, the load of self.total_requests += 1
GpLoadTotal ==
    \E c \in DOMAIN callers :
        /\ callers[c].at = "total"
        /\ callers' = [callers EXCEPT ![c].at = "total_w", ![c].read = pm.total_requests]
        /\ UNCHANGED <<pm, sm, rl, now, parser, executor, urls, results, pc, attempt, page,
                       log, history, created, op, returns>>

\* line 342, the store of self.total_requests += 1; lines 344-347: the dict is
\* returned
GpStoreTotal ==
    \E c \in DOMAIN callers :
        /\ callers[c].at = "total_w"
        /\ pm' = [pm EXCEPT !.total_requests = callers[c].read + 1]
        /\ Returned(c, ProxyDict(callers[c].proxy), FALSE)
        /\ UNCHANGED <<sm, rl, now, parser, executor, urls, results, pc, attempt, page, log,
                       history, created, op>>

\* a thread whose request failed reports the proxy it was handed: mark_failed
GpMarkFailed ==
    /\ pm.failed_requests < MaxCalls
    /\ \E i \in DOMAIN returns :
          /\ returns[i].ret # None
          /\ pm' = MarkFailed(pm, returns[i].ret)
    /\ UNCHANGED <<sm, rl, now, parser, executor, urls, results, pc, attempt, page, log,
                   history, created, op, callers, returns>>

\* the requests the per-proxy statistics count, over the proxies in S
RECURSIVE StatsRequests(_, _)
StatsRequests(stats, S) ==
    IF S = {} THEN 0
    ELSE LET p == CHOOSE p \in S : TRUE
         IN  stats[p].requests + StatsRequests(stats, S \ {p})

InitProxyThreads ==
    /\ parser = [max_retries |-> 1, retry_delay |-> RetryDelay, browser |-> "absent"]
    /\ \E enabled \in BOOLEAN : pm \in ConstructedProxyManagers(enabled, StartTime)
    /\ sm \in NewSessionManagers(FetchUserAgents, MaxSessions)
    /\ created = DOMAIN sm.sessions
    /\ rl = NewRateLimiter(MinDelay, MaxDelay, TRUE)
    /\ now = StartTime
    /\ executor = <<Outcomes>>
    /\ urls = <<>>
    /\ results = <<>>
    /\ pc = "done"
    /\ attempt = 0
    /\ page = "none"
    /\ log = EmptyLog
    /\ history = <<>>
    /\ op = [name |-> "init", run |-> <<>>]
    /\ \E n \in 1..NumCallers : callers = [c \in 1..n |-> Outside(0)]
    /\ returns = <<>>

NextProxyThreads ==
    \/ GpEnter \/ GpTest \/ GpWrap \/ GpIndex \/ GpLoadCursor \/ GpStoreCursor
    \/ GpLoadStats \/ GpStoreStats \/ GpLoadTotal \/ GpStoreTotal \/ GpMarkFailed

SpecProxyThreads == InitProxyThreads /\ [][NextProxyThreads]_vars

\* ---------------------------------------------- shared SessionManager
\* Threads that share one SessionManager, as parsers built on the same
\* session_manager do; it takes no lock. A thread is at "idle", inside
\* get_session at "choose", "lookup" or "return", or inside clear_all_sessions
\* at "create"; session_id is the local of get_session. returns lists what the
\* get_session calls returned or raised, and whether the session handed out was
\* still registered when it was returned.
Away(calls) == [at |-> "idle", session_id |-> <<>>, calls |-> calls]

\* the get_session call of thread c is over
Handed(c, session_id, raised) ==
    /\ callers' = [callers EXCEPT ![c] = Away(@.calls + 1)]
    /\ returns' = Append(returns, [sid |-> session_id, raised |-> raised,
                                   discarded |-> session_id \notin DOMAIN sm.sessions])

\* get_session, lines 104-107: below max_sessions a session may be created
GsEnter ==
    \E c \in DOMAIN callers :
        /\ callers[c].at = "idle"
        /\ Started(callers) < MaxCalls
        /\ sm' \in {sm} \cup (IF BelowMaxSessions(sm)
                              THEN {CreateSession(sm, ua) : ua \in sm.user_agents}
                              ELSE {})
        /\ callers' = [callers EXCEPT ![c].at = "choose"]
        /\ created' = created \cup DOMAIN sm'.sessions
        /\ UNCHANGED <<pm, rl, now, parser, executor, urls, results, pc, attempt, page, log,
                       history, op, returns>>

\* line 110: random.choice(list(self.sessions.keys())), IndexError on no session
GsChoose ==
    \E c \in DOMAIN callers :
        /\ callers[c].at = "choose"
        /\ IF DOMAIN sm.sessions = {}
           THEN Handed(c, <<>>, TRUE)
           ELSE /\ \E session_id \in DOMAIN sm.sessions :
                      callers' = [callers EXCEPT ![c].at = "lookup",
                                                 ![c].session_id = session_id]
                /\ returns' = returns
        /\ UNCHANGED <<pm, sm, rl, now, parser, executor, urls, results, pc, attempt, page,
                       log, history, created, op>>

\* line 111: session = self.sessions[session_id], KeyError when it is gone
GsLookup ==
    \E c \in DOMAIN callers :
        /\ callers[c].at = "lookup"
        /\ IF callers[c].session_id \in DOMAIN sm.sessions
           THEN /\ callers' = [callers EXCEPT ![c].at = "return"]
                /\ returns' = returns
           ELSE Handed(c, callers[c].session_id, TRUE)
        /\ UNCHANGED <<pm, sm, rl, now, parser, executor, urls, results, pc, attempt, page,
                       log, history, created, op>>

\* lines 114-118: the User-Agent of the session may be drawn again; the session
\* object is returned
GsReturn ==
    \E c \in DOMAIN callers :
        /\ callers[c].at = "return"
        /\ sm' \in {sm} \cup RotateUserAgent(sm, callers[c].session_id)
        /\ Handed(c, callers[c].session_id, FALSE)
        /\ UNCHANGED <<pm, rl, now, parser, executor, urls, results, pc, attempt, page, log,
                       history, created, op>>

\* clear_all_sessions, lines 243-244: self.sessions.clear()
CaClear ==
    \E c \in DOMAIN callers :
        /\ callers[c].at = "idle"
        /\ Started(callers) < MaxCalls
        /\ sm' = [sm EXCEPT !.sessions = <<>>]
        /\ callers' = [callers EXCEPT ![c].at = "create"]
        /\ UNCHANGED <<pm, rl, now, parser, executor, urls, results, pc, attempt, page, log,
                       history, created, op, returns>>

\* clear_all_sessions, line 245: self._create_session()
CaCreate ==
    \E c \in DOMAIN callers :
        /\ callers[c].at = "create"
        /\ \E ua \in sm.user_agents : sm' = CreateSession(sm, ua)
        /\ callers' = [callers EXCEPT ![c] = Away(@.calls + 1)]
        /\ created' = created \cup DOMAIN sm'.sessions
        /\ UNCHANGED <<pm, rl, now, parser, executor, urls, results, pc, attempt, page, log,
                       history, op, returns>>

InitSessionThreads ==
    /\ parser = [max_retries |-> 1, retry_delay |-> RetryDelay, browser |-> "absent"]
    /\ pm = NewProxyManager(FALSE)
    /\ sm \in NewSessionManagers(FetchUserAgents, MaxSessions)
    /\ created = DOMAIN sm.sessions
    /\ rl = NewRateLimiter(MinDelay, MaxDelay, TRUE)
    /\ now = StartTime
    /\ executor = <<Outcomes>>
    /\ urls = <<>>
    /\ results = <<>>
    /\ pc = "done"
    /\ attempt = 0
    /\ page = "none"
    /\ log = EmptyLog
    /\ history = <<>>
    /\ op = [name |-> "init", run |-> <<>>]
    /\ \E n \in 1..NumCallers : callers = [c \in 1..n |-> Away(0)]
    /\ returns = <<>>

NextSessionThreads == GsEnter \/ GsChoose \/ GsLookup \/ GsReturn \/ CaClear \/ CaCreate

SpecSessionThreads == InitSessionThreads /\ [][NextSessionThreads]_vars

\* ================================================================== claims

\* C1: in every fetch, whatever each attempt ends in, at most max_retries
\* attempts are made, BrowserParser.fetch_profile is invoked at most once, and
\* only by the attempt with index max_retries - 1 (the final one).
C1_AttemptsAndFallbackBounded ==
    /\ log.attempts <= parser.max_retries
    /\ attempt < parser.max_retries
    /\ Len(log.fallback) <= 1
    /\ Len(log.fallback_at) = Len(log.fallback)
    /\ \A i \in DOMAIN log.fallback_at :
          /\ log.fallback_at[i] = parser.max_retries - 1
          /\ log.attempts = parser.max_retries
          /\ pc = "fetched"

\* a fetch of three attempts whose last one asked the browser for the page
C1_Witness ==
    /\ parser.max_retries = MaxRetries
    /\ log.attempts = MaxRetries
    /\ Len(log.fallback) = 1
    /\ pc = "fetched"

\* C2: with get_proxy, mark_success, mark_failed and _fetch_proxies called in any
\* order (each call as a whole), the address get_proxy returns is not in
\* failed_proxies when it returns.
C2_NeverReturnsFailed ==
    (op.name = "get_proxy" /\ op.ret # None) => ProxyAddr(op.ret) \notin pm.failed_proxies

\* get_proxy stepped over a failed proxy of the pool and returned another one
C2_Witness ==
    /\ op.name = "get_proxy"
    /\ op.ret # None
    /\ op.steps >= 2
    /\ \E i \in DOMAIN pm.proxies : pm.proxies[i] \in pm.failed_proxies

\* the scenario of C3: 403, 403, 200 with max_retries = 3, fetch over
C3_Scenario ==
    /\ executor = << {"403"}, {"403"}, {"200"} >>
    /\ parser.max_retries = 3
    /\ pc = "fetched"

\* C3 as the specification states it: the fetch succeeds and mark_failed ran
\* exactly twice for the first two attempts.
C3_MarkedExactlyTwice ==
    C3_Scenario => (page = "page" /\ Len(log.marked) = 2)

\* C3, amended: the fetch succeeds on the third attempt, and every proxy that
\* served one of the first two attempts is marked failed exactly once; no proxy
\* is marked twice, and nothing is marked when the attempts ran without proxy.
C3_EachUsedProxyMarkedOnce ==
    C3_Scenario =>
        /\ page = "page"
        /\ log.attempts = 3
        /\ Len(log.marked) <= 2
        /\ \A i, j \in DOMAIN log.marked : i # j => log.marked[i] # log.marked[j]
        /\ Range(log.marked) = {ProxyDict(p) : p \in DOMAIN pm.proxy_stats} \ {log.proxy}
        /\ \A p \in DOMAIN pm.proxy_stats :
              pm.proxy_stats[p].failed = IF ProxyDict(p) \in Range(log.marked) THEN 1 ELSE 0
        /\ pm.failed_requests = Len(log.marked)

\* the scenario ran with one proxy only: it served the first attempt and was
\* marked once, the second and third attempts went out directly
C3_Witness ==
    /\ C3_Scenario
    /\ page = "page"
    /\ Len(log.marked) = 1
    /\ log.proxy = None

\* C4: an attempt that ends in 404 ends the fetch at once, on whichever attempt
\* it happens: the loop is left with no page, nothing is slept, and the proxy
\* the attempt used is not marked failed; a 404 on the first attempt leaves the
\* fetch at one attempt.
C4_NotFoundEndsFetch ==
    (log.attempts > 0 /\ log.outcome = "404") =>
        /\ pc = "fetched"
        /\ page = "none"
        /\ log.sleep = 0
        /\ attempt = log.attempts - 1
        /\ log.proxy # None =>
              /\ ProxyAddr(log.proxy) \notin pm.failed_proxies
              /\ log.proxy \notin Range(log.marked)
              /\ pm.proxy_stats[ProxyAddr(log.proxy)].failed = 0

\* a 404 on the second attempt, which went through a proxy
C4_Witness ==
    /\ log.outcome = "404"
    /\ log.attempts = 2
    /\ log.proxy # None
    /\ pc = "fetched"

\* a finished fetch that found no page after outcome o on its last attempt
C5_Failed(h, o) == ~h.raised /\ h.page = "none" /\ h.outcome = o

\* C5: the record parse_profile returns after a 404 differs from the record it
\* returns for the same URL after a fetch whose every attempt was blocked (403).
C5_NotFoundDistinguishable ==
    \A i, j \in DOMAIN history :
        (/\ urls[i] = urls[j]
         /\ C5_Failed(history[i], "404")
         /\ C5_Failed(history[j], "403"))
        => history[i].profile_data # history[j].profile_data

\* the scenario of C6: 999 on every attempt, a BrowserParser at hand, fetch over
C6_Scenario ==
    /\ executor = << {"999"} >>
    /\ parser.browser = "ready"
    /\ pc = "fetched"

\* C6: when every attempt ends in 999, the fetch makes all its attempts, invokes
\* the browser fallback exactly once, and when the fallback returns a page that
\* shows no block the fetch returns that page and parse_profile reports success,
\* with or without a proxy on the earlier attempts.
C6_FallbackPageReturned ==
    C6_Scenario =>
        /\ log.attempts = parser.max_retries
        /\ Len(log.fallback) = 1
        /\ (log.fallback[1].html /\ ~log.fallback[1].blocked) =>
              /\ page = "browser"
              /\ ParseProfileResult(parser, urls[1], page).status = "200"

\* three attempts answered 999, the first of them through a proxy, and the
\* fallback page returned
C6_Witness ==
    /\ C6_Scenario
    /\ parser.max_retries = MaxRetries
    /\ log.marked # <<>>
    /\ log.fallback = << [html |-> TRUE, blocked |-> FALSE] >>
    /\ page = "browser"

\* C7: right after an attempt that ended in 429, the SessionManager holds
\* exactly one session, however many it held before, and the id of that session
\* was never registered before.
C7_OneFreshSession ==
    (log.attempts > 0 /\ log.outcome = "429") =>
        /\ Cardinality(DOMAIN sm.sessions) = 1
        /\ DOMAIN sm.sessions \cap log.before.created = {}
        /\ \A sid \in DOMAIN sm.sessions : ~sm.sessions[sid].cookies

\* a 429 met with two sessions registered
C7_Witness ==
    /\ log.attempts > 0
    /\ log.outcome = "429"
    /\ Cardinality(DOMAIN log.before.sessions) = MaxSessions
    /\ Cardinality(DOMAIN sm.sessions) = 1

\* C8: parse_batch appends exactly one entry per URL, in the order of the input;
\* the batch ends only when every URL has its entry, whatever happened to the
\* earlier ones; and an entry says success exactly when the fetch of its own URL
\* returned a page and nothing raised while it was handled.
C8_OneResultPerUrl ==
    /\ Len(results) <= Len(urls)
    /\ Len(history) = Len(results)
    /\ (pc = "done") = (Len(results) = Len(urls))
    /\ \A i \in DOMAIN results :
          /\ results[i].url = urls[i]
          /\ (results[i].status = "success") = (history[i].page # "none" /\ ~history[i].raised)
          /\ (results[i].status = "error") = (history[i].page = "none" \/ history[i].raised)

\* a finished batch of three URLs: the second one raised, the first failed to
\* load, the third succeeded
C8_Witness ==
    /\ pc = "done"
    /\ Len(urls) = MaxUrls
    /\ Len(results) = MaxUrls
    /\ results[1].status = "error" /\ ~history[1].raised
    /\ history[2].raised
    /\ results[MaxUrls].status = "success"

\* C9: with one caller and the limiter enabled, two consecutive returns of
\* wait() are at least the delay drawn by the second call apart, and that delay
\* is at least min_delay.
C9_SingleCallerSpacing ==
    (Len(callers) = 1 /\ rl.enabled /\ Len(returns) = 2) =>
        /\ returns[2].delay >= rl.min_delay
        /\ returns[2].delay <= rl.max_delay
        /\ returns[2].t - returns[1].t >= returns[2].delay

\* a second call that came early and slept: it returned exactly its delay after
\* the first one
C9_Witness ==
    /\ Len(callers) = 1
    /\ rl.enabled
    /\ Len(returns) = 2
    /\ returns[2].t - returns[1].t = returns[2].delay
    /\ returns[2].delay > rl.min_delay

\* C10: with the limiter enabled and shared by several callers, two consecutive
\* returns of wait() to different callers are at least min_delay apart.
C10_CallersSerialized ==
    (rl.enabled /\ Len(returns) = 2 /\ returns[1].caller # returns[2].caller) =>
        returns[2].t - returns[1].t >= rl.min_delay

\* C11: every attempt of the loop of _fetch_page is preceded by a wait() of its
\* own: a fetch has made at least as many wait() calls as attempts, and a retry
\* starts at least min_delay after the attempt before it.
C11_EveryAttemptWaits ==
    /\ log.attempts <= log.waits
    /\ (pc = "fetch" /\ log.attempts > 0) => log.sleep >= rl.min_delay

\* C12: a _fetch_proxies call whose sources all failed or returned nothing
\* leaves self.proxies as it was before the call.
C12_FailedRefreshKeepsPool ==
    (op.name = "refresh" /\ op.candidates = {}) => pm.proxies = op.before

C14_RefreshReadmitsFailed ==
    (op.name = "refresh" /\ Cardinality(op.candidates) <= pm.max_proxies) =>
        \A p \in op.candidates \cap pm.failed_proxies : p \in Range(pm.proxies)

\* C15: get_proxy makes at most 2 x len(proxies) cursor steps; it returns None
\* when proxies are disabled (without a step), when the pool is empty after the
\* refresh it tried, or when the 2 x len(proxies) entries it examined were all
\* failed, and in no other case.
C15_BoundedSelection ==
    op.name = "get_proxy" =>
        /\ op.steps <= 2 * Len(pm.proxies)
        /\ ~pm.proxy_enabled => (op.ret = None /\ op.steps = 0)
        /\ op.ret = None =>
              \/ ~pm.proxy_enabled
              \/ pm.proxies = <<>>
              \/ /\ Range(pm.proxies) \subseteq pm.failed_proxies
                 /\ op.steps = 2 * Len(pm.proxies)
        /\ op.ret # None => ProxyAddr(op.ret) \in Range(pm.proxies)

\* get_proxy went twice round a pool whose entries are all failed
C15_Witness ==
    /\ op.name = "get_proxy"
    /\ pm.proxy_enabled
    /\ op.ret = None
    /\ Len(pm.proxies) = MaxProxies
    /\ op.steps = 2 * MaxProxies

\* the pool entries get_proxy may return, and the one the cursor reaches first
\* after entry i
C16_Healthy == {i \in DOMAIN pm.proxies : pm.proxies[i] \notin pm.failed_proxies}

C16_Next(i) ==
    LET n == Len(pm.proxies)
        away(j) == (j - i - 1) % n
    IN  CHOOSE j \in C16_Healthy : \A k \in C16_Healthy : away(j) <= away(k)

\* C16: while no mark_failed and no refresh comes between, get_proxy returns
\* the proxies that are not failed in pool order, wrapping at the end: each
\* call returns the first such proxy after the one returned before, so that
\* any k consecutive calls return each of the k proxies exactly once.
C16_RoundRobin ==
    LET run == op.run
        k == Cardinality(C16_Healthy)
    IN  /\ \A i \in DOMAIN run :
              \E j \in C16_Healthy : pm.proxies[j] = run[i]
        /\ \A i \in 1..(Len(run) - 1) :
              \A j \in C16_Healthy :
                  pm.proxies[j] = run[i] => run[i + 1] = pm.proxies[C16_Next(j)]
        /\ \A i \in DOMAIN run :
              i + k - 1 <= Len(run) =>
                  /\ {run[j] : j \in i..(i + k - 1)} = {pm.proxies[j] : j \in C16_Healthy}
                  /\ \A a, b \in i..(i + k - 1) : a # b => run[a] # run[b]

\* three calls in a row over a pool of two proxies: the third wraps to the first
C16_Witness ==
    /\ op.name = "get_proxy"
    /\ Len(op.run) = 3
    /\ Cardinality(C16_Healthy) = 2
    /\ op.run[1] # op.run[2]
    /\ op.run[3] = op.run[1]

\* C17: mark_failed puts the proxy into failed_proxies and leaves the pool list
\* and the statistics entries in place; mark_success leaves failed_proxies and
\* the pool as they are, so a failed proxy stays failed.
C17_FailedStaysFailed ==
    /\ op.name = "mark_failed" =>
          /\ op.arg \in pm.failed_proxies
          /\ pm.proxies = op.before.proxies
          /\ DOMAIN pm.proxy_stats = DOMAIN op.before.proxy_stats
          /\ pm.proxy_stats[op.arg].requests = op.before.proxy_stats[op.arg].requests
          /\ pm.proxy_stats[op.arg].failed = op.before.proxy_stats[op.arg].failed + 1
          /\ pm.failed_proxies = op.before.failed_proxies \cup {op.arg}
    /\ op.name = "mark_success" =>
          /\ pm.failed_proxies = op.before.failed_proxies
          /\ pm.proxies = op.before.proxies
          /\ pm.current_index = op.before.current_index

\* mark_success on a proxy of the pool that had been marked failed
C17_Witness ==
    /\ op.name = "mark_success"
    /\ op.arg \in pm.failed_proxies
    /\ op.arg \in Range(pm.proxies)
    /\ pm.proxy_stats[op.arg].failed > 0

C19_OtherSessionsUntouched ==
    (log.attempts > 0 /\ log.outcome = "403") =>
        \A sid \in DOMAIN log.before.sessions \ {log.sid} :
            /\ sid \in DOMAIN sm.sessions
            /\ sm.sessions[sid] = log.before.sessions[sid]

\* C20: an attempt that ended in 999 and is retried, with or without a proxy,
\* has marked the proxy it used, registered exactly one more session and slept
\* 2 x retry_delay.
C20_BlockedCreatesSession ==
    (log.attempts > 0 /\ log.outcome = "999" /\ pc = "fetch") =>
        /\ log.proxy # None => ProxyAddr(log.proxy) \in pm.failed_proxies
        /\ Cardinality(DOMAIN sm.sessions) = Cardinality(DOMAIN log.before.sessions) + 1
        /\ DOMAIN log.before.sessions \subseteq DOMAIN sm.sessions
        /\ log.sleep = 2 * parser.retry_delay

\* C21: when an attempt that went through a proxy ended in InvalidURL, the next
\* attempt of the same fetch uses no proxy, even though proxies that are not
\* failed remain in the pool.
C21_InvalidUrlSkipsProxy ==
    (executor = << {"InvalidURL"}, {"200"} >> /\ log.attempts = 2 /\ log.marked # <<>>) =>
        log.proxy = None

\* C22: the record parse_profile returns for a failed fetch carries the number
\* of attempts the fetch executed (1 after a 404 on the first attempt).
C22_ReportsAttemptsMade ==
    \A i \in DOMAIN history :
        (history[i].attempts > 0 /\ history[i].page = "none") =>
            history[i].profile_data.errorDetails.attempts = history[i].attempts

\* C23: the number of live sessions never exceeds max_sessions.
C23_SessionsWithinMax == Cardinality(DOMAIN sm.sessions) <= sm.max_sessions

\* C24: threads sharing one ProxyManager never see get_proxy raise IndexError,
\* and once no call is in progress total_requests and the sum of the per-proxy
\* request counters both equal the number of calls that returned a proxy.
C24_GetProxyAtomic ==
    /\ \A i \in DOMAIN returns : ~returns[i].raised
    /\ (\A c \in DOMAIN callers : callers[c].at = "idle") =>
          LET k == Cardinality({i \in DOMAIN returns : returns[i].ret # None})
          IN  /\ pm.total_requests = k
              /\ StatsRequests(pm.proxy_stats, DOMAIN pm.proxy_stats) = k

\* C25: with threads sharing one SessionManager, no get_session call finds the
\* pool empty (it raises) and none returns a session that clear_all_sessions
\* has already dropped from the pool.
C25_ClearExcludesAcquire ==
    \A i \in DOMAIN returns : ~returns[i].raised /\ ~returns[i].discarded

\* C26: the backoff slept after an attempt is retry_delay for 403, for a status
\* without a branch of its own and for a requests exception, 3 x retry_delay
\* for 429, and it is slept only when an attempt remains: after the attempt
\* number max_retries nothing is slept.
C26_BackoffTable ==
    log.attempts > 0 =>
        LET remains == log.attempts < parser.max_retries
        IN  /\ log.outcome \in {"403", "500"} \cup RequestExceptions =>
                  log.sleep = IF remains THEN parser.retry_delay ELSE 0
            /\ log.outcome = "429" =>
                  log.sleep = IF remains THEN 3 * parser.retry_delay ELSE 0
            /\ ~remains => log.sleep = 0
            /\ log.sleep > 0 => pc = "fetch"

\* a first attempt answered 429, with attempts left
C26_Witness ==
    /\ log.attempts = 1
    /\ log.outcome = "429"
    /\ parser.max_retries > 1
    /\ pc = "fetch"
    /\ log.sleep = 3 * RetryDelay
    /\ now = StartTime + 3 * RetryDelay

\* C27: when the browser fallback returned no page or a blocked page, the
\* fetch is over at once: _fetch_page has returned None, on the final attempt,
\* after one fallback call and no backoff, and parse_profile turns it into the
\* error record without raising.
C27_FailedFallbackEndsFetch ==
    /\ (log.fallback # <<>> /\ (~log.fallback[1].html \/ log.fallback[1].blocked)) =>
          /\ pc = "fetched"
          /\ page = "none"
          /\ log.attempts = parser.max_retries
          /\ Len(log.fallback) = 1
          /\ log.sleep = 0
    /\ \A i \in DOMAIN history :
          (history[i].outcome = "999" /\ parser.browser = "ready" /\ history[i].page = "none") =>
              /\ history[i].attempts = parser.max_retries
              /\ ~history[i].raised
              /\ history[i].profile_data.status = "error"

\* the browser loaded a page that shows a block indicator
C27_Witness ==
    /\ pc = "fetched"
    /\ log.outcome = "999"
    /\ log.fallback # <<>>
    /\ log.fallback[1].html
    /\ log.fallback[1].blocked
    /\ log.attempts = MaxRetries

\* C28: after an attempt answered 200 the fetch is over with the page, nothing
\* was slept, and the proxy used, if any, counts one success, is not failed and
\* was not passed to mark_failed.
C28_SuccessMarkedOnce ==
    (log.attempts > 0 /\ log.outcome = "200") =>
        /\ pc = "fetched"
        /\ page = "page"
        /\ log.sleep = 0
        /\ log.proxy # None =>
              LET proxy == ProxyAddr(log.proxy)
              IN  /\ pm.proxy_stats[proxy].successful = 1
                  /\ pm.proxy_stats[proxy].failed = 0
                  /\ pm.successful_requests = 1
                  /\ proxy \notin pm.failed_proxies
                  /\ \A i \in DOMAIN log.marked : log.marked[i] # log.proxy
        /\ log.proxy = None => pm.successful_requests = 0

\* a 200 through a proxy on the second attempt
C28_Witness ==
    /\ log.attempts = 2
    /\ log.outcome = "200"
    /\ log.proxy # None
    /\ log.marked # <<>>

\* C29: on a disabled RateLimiter every wait() returns without sleeping, and
\* last_request_time keeps the value it was constructed with.
C29_DisabledWaitIsNoOp ==
    ~rl.enabled =>
        /\ rl.last_request_time = NewRateLimiter(rl.min_delay, rl.max_delay, FALSE).last_request_time
        /\ \A c \in DOMAIN callers : callers[c].at = "idle"
        /\ \A i \in DOMAIN returns : returns[i].delay = 0

\* two wait() calls returned on a disabled limiter, at different times
C29_Witness ==
    /\ ~rl.enabled
    /\ Len(returns) = 2
    /\ returns[1].t < returns[2].t

\* C30: a get_proxy call refreshes the pool exactly when proxies are enabled
\* and the pool is older than refresh_interval or empty; a second refresh in
\* the same call happens only after an aged pool was refreshed to nothing.
C30_RefreshTriggers ==
    [][PoolGetProxy =>
          LET aged == now - pm.last_refresh > pm.refresh_interval
              empty == pm.proxies = <<>>
          IN  /\ op'.refreshes > 0 <=> (pm.proxy_enabled /\ (aged \/ empty))
              /\ op'.refreshes <= 2
              /\ op'.refreshes = 2 => aged]_vars

\* a get_proxy on a non-empty pool grown older than refresh_interval
C30_Witness ==
    /\ op.name = "get_proxy"
    /\ op.refreshes = 1
    /\ op.ret # None
    /\ now > StartTime + RefreshInterval

\* C31: the rotate_session call of an attempt returns a session registered in
\* the pool, drops no session (session_0, while registered, stays so), and
\* registers at most one new session, only when the pool was below max_sessions.
C31_AcquireKeepsPool ==
    [][log'.attempts = log.attempts + 1 =>
          LET old == DOMAIN sm.sessions
              new == DOMAIN log'.before.sessions
          IN  /\ log'.sid \in new
              /\ old \subseteq new
              /\ <<0, "">> \in old => <<0, "">> \in new
              /\ new # old => /\ Cardinality(old) < sm.max_sessions
                              /\ Cardinality(new) = Cardinality(old) + 1]_vars

\* an attempt whose rotate_session created session_1 and returned session_0
C31_Witness ==
    /\ log.attempts = 1
    /\ log.sid = <<0, "">>
    /\ DOMAIN log.before.sessions = {<<0, "">>, <<1, "">>}

\* C32: no call of get_proxy, mark_success, mark_failed or _fetch_proxies takes
\* an address out of failed_proxies, reset() empties it, and a get_proxy made
\* when every address the sources offer is failed returns None, refreshes or not.
C32_FailedNeverShrinks ==
    [][/\ pm.failed_proxies \subseteq pm'.failed_proxies
       /\ ResetProxyManager(pm').failed_proxies = {}
       /\ (op'.name = "get_proxy" /\ Addr \subseteq pm'.failed_proxies) =>
              op'.ret = None]_vars

\* every address is failed, and a get_proxy that refreshed the pool got None
C32_Witness ==
    /\ pm.failed_proxies = Addr
    /\ op.name = "get_proxy"
    /\ op.refreshes > 0
    /\ op.ret = None

\* C33: a get_proxy whose rotation starts on a pool with a proxy that is not
\* failed returns a proxy that is not failed, after at most len(proxies) steps.
C33_HealthyProxyFound ==
    (/\ op.name = "get_proxy"
     /\ pm.proxy_enabled
     /\ \E i \in DOMAIN pm.proxies : pm.proxies[i] \notin pm.failed_proxies) =>
        /\ op.ret # None
        /\ ProxyAddr(op.ret) \notin pm.failed_proxies
        /\ op.steps <= Len(pm.proxies)

\* the rotation skipped a failed proxy and returned the next one
C33_Witness ==
    /\ op.name = "get_proxy"
    /\ op.refreshes = 0
    /\ op.steps = 2
    /\ op.ret # None
    /\ pm.failed_proxies # {}

\* C34: whatever the pool and the cursor a sequence of calls has left, every
\* read of self.proxies in the rotation of the next get_proxy is at an index
\* from 0 to len(proxies) - 1.
C34_CursorInRange ==
    \A b \in BeforeRotation(pm, now) :
        b.ok => \A i \in CursorAccesses(b.pm, 0, MaxAttempts(b.pm)) :
                    0 <= i /\ i < Len(b.pm.proxies)

\* a refresh shrank the pool below the cursor
C34_Witness ==
    /\ op.name = "refresh"
    /\ Len(pm.proxies) < Len(op.before)
    /\ pm.proxies # <<>>
    /\ pm.current_index > Len(pm.proxies)
    /\ ~PoolStale(pm, now)

\* C35: while the pool is used by the fetches of the controller only, the
\* reports never outnumber the requests, in total and for each proxy, no proxy
\* is counted failed twice, and total_requests is the sum of the per-proxy
\* request counters.
C35_StatsConsistent ==
    /\ pm.successful_requests + pm.failed_requests <= pm.total_requests
    /\ \A p \in DOMAIN pm.proxy_stats :
          /\ pm.proxy_stats[p].successful + pm.proxy_stats[p].failed <= pm.proxy_stats[p].requests
          /\ pm.proxy_stats[p].failed <= 1
    /\ pm.total_requests = StatsRequests(pm.proxy_stats, DOMAIN pm.proxy_stats)

\* three attempts through proxies: one unreported, one reported failed, the
\* last successful
C35_Witness ==
    /\ pm.total_requests = 3
    /\ pm.failed_requests = 1
    /\ pm.successful_requests = 1

\* C36: the pool of sessions is never empty, so that rotate_session always
\* finds a session to return; remove_session on the last session empties it.
C36_PoolNeverEmpty ==
    /\ DOMAIN sm.sessions # {}
    /\ log.attempts > 0 => log.sid \in DOMAIN log.before.sessions
    /\ \A sid \in DOMAIN sm.sessions :
          Cardinality(DOMAIN sm.sessions) = 1 => DOMAIN RemoveSession(sm, sid).sessions = {}

\* clear_all_sessions replaced a pool of two sessions by one new session
C36_Witness ==
    /\ log.attempts > 0
    /\ log.outcome = "429"
    /\ Cardinality(DOMAIN log.before.sessions) = 2
    /\ Cardinality(DOMAIN sm.sessions) = 1
    /\ DOMAIN sm.sessions \cap DOMAIN log.before.sessions = {}

\* C37: every session id ever registered carries its own counter value, below
\* session_count, and there are session_count of them: no creation reused an
\* id, clear_all_sessions or not. Until the first clear_all_sessions the pool
\* holds one session per creation.
C37_IdsNeverReused ==
    /\ DOMAIN sm.sessions \subseteq created
    /\ \A a \in created : a[1] < sm.session_count
    /\ \A a, b \in created : a[1] = b[1] => a = b
    /\ Cardinality(created) = sm.session_count
    /\ <<0, "">> \in DOMAIN sm.sessions => Cardinality(DOMAIN sm.sessions) = sm.session_count

\* four sessions were created, the first ones dropped by clear_all_sessions
C37_Witness ==
    /\ sm.session_count = 4
    /\ <<0, "">> \notin DOMAIN sm.sessions
    /\ \E a \in DOMAIN sm.sessions : a[2] = "unknown"

\* C38: an attempt that ended in the generic exception handler has left the
\* proxy it used out of failed_proxies and uncounted as failed; the fetch then
\* sleeps retry_delay and retries when attempts remain, and returns None
\* without sleeping otherwise.
C38_GenericHandlerSparesProxy ==
    (log.attempts > 0 /\ log.generic) =>
        /\ log.proxy # None =>
              /\ ProxyAddr(log.proxy) \notin pm.failed_proxies
              /\ pm.proxy_stats[ProxyAddr(log.proxy)].failed = 0
        /\ IF log.attempts < parser.max_retries
           THEN log.sleep = parser.retry_delay /\ pc = "fetch"
           ELSE log.sleep = 0 /\ pc = "fetched" /\ page = "none"

====
